---- MODULE Spec2Model ----
(***************************************************************************)
(* The cached-fetch-with-fallback pipeline of the US Treasury yield curve  *)
(* widget (us_treasury_yield_curve_widget.js): the date-keyed file cache,  *)
(* the feed parser inside fetchYieldDataForDate, the batch                 *)
(* fetchAllYieldData, the display decision of createWidget, and the        *)
(* business-day calendar behind getHistoricalDates.                        *)
(*                                                                         *)
(* Texts of the feed are strings; a number is written as the string of its *)
(* JavaScript value ("4.2" for the text "4.20"), so that parseFloat and    *)
(* the JSON round trip of the cache are conversions and not the identity.  *)
(***************************************************************************)
EXTENDS Integers, Sequences, FiniteSets, TLC

VARIABLES
    cache,        \* the cache directory: file suffix -> stored JSON object
    feed,         \* the records the remote feed holds now, in feed order
    call,         \* the last run of fetchYieldDataForDate: arguments, I/O, result
    pc,           \* createWidget: "idle"; in fetchAllYieldData "current" (awaiting
                  \* the current data), "hist" (at the top of the loop), "await"
                  \* (awaiting a historical curve); "render"
    idx,          \* fetchAllYieldData: index of the next historical period
    hist,         \* fetchAllYieldData: the dateStrings of getHistoricalDates()
    netUp,        \* whether the remote feed is reachable during this update
    results,      \* fetchAllYieldData: the results object
    updReqs,      \* requests sent to the remote feed by this update
    display,      \* what the widget shows: "none", "chart" or the error text
    active,       \* fetchAllYieldData: the fetches begun and not yet settled
    started,      \* fetchAllYieldData: the fetches of this run, in the order begun
    now,          \* the clock of the device: local date, hour and UTC offset
    histDates,    \* what getHistoricalDates() returned at this clock, or << >>
    request       \* the year choice of the last request for the feed

vars ==
    <<cache, feed, call, pc, idx, hist, netUp, results, updReqs, display,
      active, started, now, histDates, request>>

\* The state of the fetches in flight, and the state of the calendar.
seqVars == <<active, started>>
calVars == <<now, histDates, request>>

(***************************************************************************)
(* Bounds of the model.                                                    *)
(***************************************************************************)
\* Number of calendar dates that occur as record dates and as target dates of
\* the parser (SpecParse).
MaxDay == 4
\* Number of calendar dates the remote feed comes to hold, and that are asked
\* for, while the cache is in use (Spec, SpecWidget).
MaxKey == 2
\* Longest feed text (in records) handed to the parser in SpecParse.
MaxFeedLen == 3
\* Number of years, from 2023 on, the clock of the device is drawn from
\* (SpecCalendar).
MaxYears == 3
\* Number of maturity fields, from the first of the table on, whose text is
\* drawn from every field text of the model (SpecFields).
MaxVaried == 2

(***************************************************************************)
(* Dates.  A date string is one of the ISO texts of DateText; DayOf is the *)
(* order new Date(text) gives them (all are UTC midnights).                *)
(***************************************************************************)
DateText ==
    <<"2024-07-23", "2024-07-24", "2024-07-25", "2024-07-26", "2024-07-29", "2024-07-30">>

DateSuffix ==
    <<"20240723", "20240724", "20240725", "20240726", "20240729", "20240730">>

Dates == {DateText[i] : i \in 1..MaxDay}

KeyDates == {DateText[i] : i \in 1..MaxKey}

\* The null default of targetDateString (a request for the most recent curve).
NullDate == "null"

\* JavaScript truthiness of a date string argument: null and "" are falsy.
Truthy(s) == s # NullDate /\ s # ""

\* new Date(s) is a valid date (not Invalid Date, whose comparisons are all false).
ValidDate(s) == \E i \in 1..Len(DateText) : DateText[i] = s

\* new Date(s).getTime(), in days, for a valid date text.
DayOf(s) == CHOOSE i \in 1..Len(DateText) : DateText[i] = s

\* dateString.replace(/-/g, ''): the date suffix of the cache file name.
StripDashes(s) == IF ValidDate(s) THEN DateSuffix[DayOf(s)] ELSE s

(***************************************************************************)
(* Field texts and their conversions.                                      *)
(***************************************************************************)
\* String.prototype.trim() on the field texts of the model.
Trim(t) ==
    CASE t = " " -> ""
      [] t = " N/A " -> "N/A"
      [] t = " 4.22" -> "4.22"
      [] OTHER -> t

\* parseFloat(t): the JavaScript number, written as JSON writes it; "NaN" when
\* no prefix of the trimmed text is a number.
ParseFloat(t) ==
    CASE t = "4.19" -> "4.19"
      [] t = "4.20" -> "4.2"
      [] t = "4.22" -> "4.22"
      [] t = " 4.22" -> "4.22"
      [] t = "4.19%" -> "4.19"
      [] t = "Infinity" -> "Infinity"
      [] OTHER -> "NaN"

\* JSON.stringify followed by JSON.parse of one number: a non-finite number is
\* written as null.
JsonNumber(y) == IF y \in {"Infinity", "-Infinity", "NaN"} THEN "null" ELSE y

(***************************************************************************)
(* The maturities table of fetchYieldDataForDate.                          *)
(***************************************************************************)
maturities ==
    << [label |-> "1M",  field |-> "BC_1MONTH",  months |-> 1],
       [label |-> "2M",  field |-> "BC_2MONTH",  months |-> 2],
       [label |-> "3M",  field |-> "BC_3MONTH",  months |-> 3],
       [label |-> "4M",  field |-> "BC_4MONTH",  months |-> 4],
       [label |-> "6M",  field |-> "BC_6MONTH",  months |-> 6],
       [label |-> "1Y",  field |-> "BC_1YEAR",   months |-> 12],
       [label |-> "2Y",  field |-> "BC_2YEAR",   months |-> 24],
       [label |-> "3Y",  field |-> "BC_3YEAR",   months |-> 36],
       [label |-> "5Y",  field |-> "BC_5YEAR",   months |-> 60],
       [label |-> "7Y",  field |-> "BC_7YEAR",   months |-> 84],
       [label |-> "10Y", field |-> "BC_10YEAR",  months |-> 120],
       [label |-> "20Y", field |-> "BC_20YEAR",  months |-> 240],
       [label |-> "30Y", field |-> "BC_30YEAR",  months |-> 360] >>

FieldNames == {maturities[i].field : i \in 1..Len(maturities)}

(***************************************************************************)
(* Feed entries.  An <entry> block is a function from the tags it holds to *)
(* their texts; a tag the block lacks is not in its domain.                *)
(***************************************************************************)
\* An entry whose thirteen maturity fields all hold the text v.
Row(v) == [f \in FieldNames |-> v]

\* An entry whose first field is "N/A", whose second is "Infinity" and whose
\* other fields are rates.
RowMixed ==
    [f \in FieldNames |->
        CASE f = "BC_1MONTH" -> "N/A"
          [] f = "BC_2MONTH" -> "Infinity"
          [] f = "BC_10YEAR" -> "4.19"
          [] OTHER -> "4.20"]

\* An entry with a NEW_DATE tag holding d and the fields of row.
Entry(d, row) == ("NEW_DATE" :> d) @@ row

\* entry.match(/<d:NEW_DATE[^>]*>(.*?)<\/d:NEW_DATE>/) found the tag.
HasDate(entry) == "NEW_DATE" \in DOMAIN entry

\* dateMatch[1] of an entry that has the tag.
DateOf(entry) == entry["NEW_DATE"]

(***************************************************************************)
(* Values of the script.                                                   *)
(***************************************************************************)
\* The null a function returns.
NULL == [null |-> TRUE]

\* An error that left a function (a rejected promise).
THROWN == [thrown |-> TRUE]

IsCurve(r) == r # NULL /\ r # THROWN

(***************************************************************************)
(* The parser inside fetchYieldDataForDate (lines 231-315).                *)
(***************************************************************************)
\* FindExact with "<=" on the dates for "===" on the texts: the first entry
\* dated on or before dateString.
FindExact_OnOrBefore(entries, dateString) ==
    LET hits == {i \in 1..Len(entries) :
                    /\ HasDate(entries[i])
                    /\ ValidDate(DateOf(entries[i]))
                    /\ DayOf(DateOf(entries[i])) <= DayOf(dateString)}
    IN IF hits = {} THEN 0 ELSE CHOOSE i \in hits : \A j \in hits : i <= j

\* entries.find(entry => dateMatch && dateMatch[1] === dateString): the index
\* of the first entry whose date text is dateString, 0 for undefined.
FindExact(entries, dateString) ==
    LET hits == {i \in 1..Len(entries) :
                    HasDate(entries[i]) /\ DateOf(entries[i]) = dateString}
    IN IF hits = {} THEN 0 ELSE CHOOSE i \in hits : \A j \in hits : i <= j

\* One pass of the loop "for (const entry of entries)" of the closest earlier
\* date, from entry i on; closest is the index of closestEntry (0 for null).
RECURSIVE ClosestLoop(_, _, _, _)
ClosestLoop(entries, i, dateString, closest) ==
    IF i > Len(entries) THEN closest
    ELSE LET entry == entries[i]
             take == /\ HasDate(entry)
                     /\ ValidDate(DateOf(entry))
                     /\ ValidDate(dateString)
                     /\ DayOf(DateOf(entry)) <= DayOf(dateString)
                     /\ \/ closest = 0
                        \/ DayOf(DateOf(entry)) > DayOf(DateOf(entries[closest]))
         IN ClosestLoop(entries, i + 1, dateString, IF take THEN i ELSE closest)

\* ClosestEarlier without the test "entryDate > closestDate": the first entry
\* dated on or before dateString.
ClosestEarlier_First(entries, dateString) ==
    LET hits == {i \in 1..Len(entries) :
                    /\ HasDate(entries[i])
                    /\ ValidDate(DateOf(entries[i]))
                    /\ DayOf(DateOf(entries[i])) <= DayOf(dateString)}
    IN IF hits = {} THEN 0 ELSE CHOOSE i \in hits : \A j \in hits : i <= j

\* The index of closestEntry after the loop, 0 when it is still null.
ClosestEarlier(entries, dateString) == ClosestLoop(entries, 1, dateString, 0)

\* The choice of targetEntry: its index in entries, 0 when the code throws
\* "No data available for or before ...".
TargetEntry(entries, dateString) ==
    IF Truthy(dateString)
    THEN IF FindExact(entries, dateString) # 0
         THEN FindExact(entries, dateString)
         ELSE ClosestEarlier(entries, dateString)
    ELSE Len(entries)

\* The test that lets a maturity into yieldData.
Usable(entry, m) ==
    /\ m.field \in DOMAIN entry
    /\ entry[m.field] # ""
    /\ Trim(entry[m.field]) # ""
    /\ entry[m.field] # "N/A"
    /\ ParseFloat(entry[m.field]) # "NaN"

\* The loop "for (const maturity of maturities)" from maturity i on.
RECURSIVE YieldDataFrom(_, _)
YieldDataFrom(entry, i) ==
    IF i > Len(maturities) THEN << >>
    ELSE LET m == maturities[i]
             rest == YieldDataFrom(entry, i + 1)
         IN IF Usable(entry, m)
            THEN << [label |-> m.label, months |-> m.months,
                     yield |-> ParseFloat(entry[m.field])] >> \o rest
            ELSE rest

\* yieldData of the target entry.
YieldData(entry) == YieldDataFrom(entry, 1)

\* const date = dateMatch ? dateMatch[1] : "Unknown"
ExtractDate(entry) == IF HasDate(entry) THEN DateOf(entry) ELSE "Unknown"

\* The parse of a response: [ok |-> FALSE] when it throws, otherwise the
\* result object, tagged "Fresh data".
ParseFeed(entries, dateString) ==
    IF Len(entries) = 0 THEN [ok |-> FALSE, error |-> "No data entries found"]
    ELSE IF TargetEntry(entries, dateString) = 0
         THEN [ok |-> FALSE, error |-> "No data available for or before"]
         ELSE LET targetEntry == entries[TargetEntry(entries, dateString)]
              IN [ok |-> TRUE,
                  result |-> [date |-> ExtractDate(targetEntry),
                              yieldData |-> YieldData(targetEntry),
                              cacheStatus |-> "Fresh data",
                              fromCache |-> FALSE]]

(***************************************************************************)
(* The cache (lines 150-199).                                              *)
(***************************************************************************)
\* JSON.parse(JSON.stringify(data)) of a result object.
JsonRoundTrip(data) ==
    [data EXCEPT !.yieldData =
        [i \in 1..Len(data.yieldData) |->
            [data.yieldData[i] EXCEPT !.yield = JsonNumber(data.yieldData[i].yield)]]]

fileExists(c, dateString) == StripDashes(dateString) \in DOMAIN c

\* getCachedData without the cache metadata: the stored object as it is.
getCachedData_Untagged(c, dateString, readOK) ==
    IF ~Truthy(dateString) THEN THROWN
    ELSE IF ~fileExists(c, dateString) THEN NULL
    ELSE IF ~readOK THEN NULL
    ELSE c[StripDashes(dateString)]

\* getCachedData with an expiry that no entry passes.
getCachedData_Expired(c, dateString, readOK) ==
    IF ~Truthy(dateString) THEN THROWN ELSE NULL

\* getCachedData without its try/catch: a failed read leaves the function.
getCachedData_Rethrow(c, dateString, readOK) ==
    IF ~Truthy(dateString) THEN THROWN
    ELSE IF ~fileExists(c, dateString) THEN NULL
    ELSE IF ~readOK THEN THROWN
    ELSE [c[StripDashes(dateString)] EXCEPT
              !.cacheStatus = "Cached data", !.fromCache = TRUE]

\* getCachedData(dateString) on cache directory c; readOK is whether
\* fileExists, readString and JSON.parse go through without an exception.
getCachedData(c, dateString, readOK) ==
    IF ~Truthy(dateString) THEN THROWN
    ELSE IF ~fileExists(c, dateString) THEN NULL
    ELSE IF ~readOK THEN NULL
    ELSE [c[StripDashes(dateString)] EXCEPT
              !.cacheStatus = "Cached data", !.fromCache = TRUE]

\* setCachedData with the write outside its try block: a failed write throws.
setCachedData_Rethrow(c, data, dateString, writeOK) ==
    IF ~Truthy(dateString) \/ ~writeOK
    THEN [cache |-> c, threw |-> TRUE, wrote |-> FALSE]
    ELSE [cache |-> (StripDashes(dateString) :> JsonRoundTrip(data)) @@ c,
          threw |-> FALSE, wrote |-> TRUE]

\* setCachedData(data, dateString) on cache directory c; writeOK is whether
\* writeString goes through.  The directory afterwards, and whether the
\* function threw.
setCachedData(c, data, dateString, writeOK) ==
    IF ~Truthy(dateString) THEN [cache |-> c, threw |-> TRUE, wrote |-> FALSE]
    ELSE IF ~writeOK THEN [cache |-> c, threw |-> FALSE, wrote |-> FALSE]
    ELSE [cache |-> (StripDashes(dateString) :> JsonRoundTrip(data)) @@ c,
          threw |-> FALSE, wrote |-> TRUE]

(***************************************************************************)
(* fetchYieldDataForDate (lines 208-337).                                  *)
(***************************************************************************)
\* How a cache read ended, for the record of the call.
ReadOutcome(c, dateString, readOK) ==
    IF ~fileExists(c, dateString) THEN "nofile"
    ELSE IF readOK THEN "ok" ELSE "fail"

\* The catch block without the fallback read.
Fallback_None(c, dateString, readOK) == NULL

\* The catch block: the cached curve of a specific date as fallback, else null.
Fallback(c, dateString, readOK) ==
    IF Truthy(dateString)
    THEN LET fallbackCache == getCachedData(c, dateString, readOK)
         IN IF fallbackCache # NULL THEN fallbackCache ELSE NULL
    ELSE NULL

\* The part of the call record the catch block fills in.
Caught(c, dateString, readOK, sofar) ==
    [sofar EXCEPT
        !.ret = Fallback(c, dateString, readOK),
        !.read2 = IF Truthy(dateString)
                  THEN ReadOutcome(c, dateString, readOK) ELSE "skip"]

\* One run of fetchYieldDataForDate(targetDateString) on cache directory c.
\* netOK: req.loadString() returns (with the text of entries xml) rather than
\* throws; rd1, rd2: the first and the fallback cache read go through; wr: the
\* cache write goes through.  The record holds the result (ret), the directory
\* afterwards (cache) and what the run did.
fetchYieldDataForDate(targetDateString, c, netOK, xml, rd1, rd2, wr) ==
    LET dateString == targetDateString
        cacheKey == dateString
        cachedData == IF Truthy(cacheKey) THEN getCachedData(c, cacheKey, rd1) ELSE NULL
        start == [req |-> targetDateString, ret |-> NULL, cache |-> c,
                  requests |-> 0, net |-> "none", xml |-> << >>,
                  read1 |-> IF Truthy(cacheKey)
                            THEN ReadOutcome(c, cacheKey, rd1) ELSE "skip",
                  read2 |-> "skip", write |-> "skip"]
    IN IF cachedData = THROWN THEN [start EXCEPT !.ret = THROWN]
       ELSE IF cachedData # NULL THEN [start EXCEPT !.ret = cachedData]
       ELSE LET sent == [start EXCEPT !.requests = 1,
                                      !.net = IF netOK THEN "ok" ELSE "error",
                                      !.xml = IF netOK THEN xml ELSE << >>]
                parsed == ParseFeed(xml, dateString)
            IN IF ~netOK \/ ~parsed.ok THEN Caught(c, dateString, rd2, sent)
               ELSE LET result == parsed.result
                        actualCacheKey == IF Truthy(dateString)
                                          THEN dateString ELSE result.date
                        stored == setCachedData(c, result, actualCacheKey, wr)
                    IN IF stored.threw
                       THEN Caught(c, dateString, rd2, [sent EXCEPT !.write = "throw"])
                       ELSE [sent EXCEPT
                                !.ret = result,
                                !.cache = stored.cache,
                                !.write = IF stored.wrote THEN "ok" ELSE "fail"]

(***************************************************************************)
(* The configuration and the result object of fetchAllYieldData.           *)
(***************************************************************************)
HISTORICAL_PERIODS == <<7, 14>>

\* The label getHistoricalDates gives a period.
PeriodLabel(daysAgo) ==
    CASE daysAgo = 7 -> "1 week ago"
      [] daysAgo = 14 -> "2 weeks ago"
      [] OTHER -> "days ago"

\* The key `days_${histDate.daysAgo}` of the results object.
DaysKey(daysAgo) ==
    CASE daysAgo = 7 -> "days_7"
      [] daysAgo = 14 -> "days_14"
      [] OTHER -> "days_N"

\* An object without properties: the empty cache directory, the empty results.
Empty == [k \in {} |-> NULL]

\* The dateStrings getHistoricalDates() can return: one business day per
\* period, the longer period giving the earlier day.
HistoricalDates ==
    {h \in [1..Len(HISTORICAL_PERIODS) -> KeyDates] :
        \A i, j \in 1..Len(HISTORICAL_PERIODS) : i < j => DayOf(h[j]) < DayOf(h[i])}

\* The texts createWidget shows.
UnableText == "Unable to fetch current data"

(***************************************************************************)
(* Dates of the device.  A Date object is the record of its local getters  *)
(* getFullYear, getMonth (0 to 11), getDate and getHours, with the offset  *)
(* of local time from UTC in hours (local = UTC + offset); a date string   *)
(* YYYY-MM-DD is the record of its three numbers, the month from 1 to 12.  *)
(***************************************************************************)
IsLeapYear(y) == (y % 4 = 0 /\ y % 100 # 0) \/ y % 400 = 0

\* Days of month m (0 to 11) of year y.
DaysInMonth(y, m) ==
    CASE m \in {3, 5, 8, 10} -> 30
      [] m = 1 -> IF IsLeapYear(y) THEN 29 ELSE 28
      [] OTHER -> 31

\* date.setDate(n): the day of the month set to n, a day before the first or
\* after the last of the month carried into the months before or after.
RECURSIVE setDate(_, _)
setDate(date, n) ==
    IF n < 1
    THEN LET y == IF date.month = 0 THEN date.year - 1 ELSE date.year
             m == IF date.month = 0 THEN 11 ELSE date.month - 1
         IN setDate([date EXCEPT !.year = y, !.month = m], n + DaysInMonth(y, m))
    ELSE IF n > DaysInMonth(date.year, date.month)
    THEN LET y == IF date.month = 11 THEN date.year + 1 ELSE date.year
             m == IF date.month = 11 THEN 0 ELSE date.month + 1
         IN setDate([date EXCEPT !.year = y, !.month = m],
                    n - DaysInMonth(date.year, date.month))
    ELSE [date EXCEPT !.day = n]

\* The number of the local calendar day of a date (its Julian day number).
DayNumber(date) ==
    LET a == (13 - date.month) \div 12
        y == date.year + 4800 - a
        m == date.month + 12 * a - 2
    IN date.day + (153 * m + 2) \div 5 + 365 * y + y \div 4 - y \div 100
          + y \div 400 - 32045

\* date.getDay(): 0 for Sunday to 6 for Saturday, in local time.
getDay(date) == (DayNumber(date) + 1) % 7

isWeekend(date) == getDay(date) = 0 \/ getDay(date) = 6

isUSHoliday(date) ==
    \/ date.month = 0 /\ date.day = 1
    \/ date.month = 6 /\ date.day = 4
    \/ date.month = 11 /\ date.day = 25

isBusinessDay(date) == ~isWeekend(date) /\ ~isUSHoliday(date)

\* The loop of getClosestPreviousBusinessDay run once at most.
getClosestPreviousBusinessDay_OneStep(date) ==
    IF isBusinessDay(date) THEN date ELSE setDate(date, date.day - 1)

\* while (!isBusinessDay(result)) result.setDate(result.getDate() - 1)
RECURSIVE getClosestPreviousBusinessDay(_)
getClosestPreviousBusinessDay(date) ==
    IF isBusinessDay(date) THEN date
    ELSE getClosestPreviousBusinessDay(setDate(date, date.day - 1))

\* date.toISOString().split('T')[0]: the calendar day of the date in UTC.
formatDateForAPI(date) ==
    LET utcHour == date.hour - date.offset
        utc == IF utcHour < 0 THEN setDate(date, date.day - 1)
               ELSE IF utcHour >= 24 THEN setDate(date, date.day + 1)
               ELSE date
    IN [year |-> utc.year, month |-> utc.month + 1, day |-> utc.day]

\* getHistoricalDates() when new Date() is today.
getHistoricalDates(today) ==
    [i \in 1..Len(HISTORICAL_PERIODS) |->
        LET daysAgo == HISTORICAL_PERIODS[i]
            targetDate == setDate(today, today.day - daysAgo)
            businessDay == getClosestPreviousBusinessDay(targetDate)
        IN [daysAgo |-> daysAgo,
            date |-> businessDay,
            dateString |-> formatDateForAPI(businessDay),
            label |-> PeriodLabel(daysAgo)]]

\* const currentYear = new Date().getFullYear()
currentYear == now.year

\* The null default of the argument year.
NoYear == 0

\* const useYear = year || currentYear
useYear(year) == IF year # NoYear THEN year ELSE currentYear

(***************************************************************************)
(* The state machine.                                                      *)
(***************************************************************************)
\* The entries the remote feed can add after the ones it holds: the record of
\* the next day, with rates or without any, or a record whose date is blank.
NextEntries(entries) ==
    {Entry(DateText[Len(entries) + 1], RowMixed),
     Entry(DateText[Len(entries) + 1], Row("N/A")),
     Entry("", RowMixed)}

\* The entries of the feed texts handed to the parser in SpecParse: any date
\* of the model, a blank date or no NEW_DATE tag, with one of two rows.
ParseRows == {Row("4.20"), Row("4.19")}

ParseEntries ==
    {Entry(d, row) : d \in Dates \cup {""}, row \in ParseRows} \cup ParseRows

ParseFeeds == UNION {[1..n -> ParseEntries] : n \in 0..MaxFeedLen}

\* The clock of the runs that do not depend on it: Friday 2024-07-26, noon, UTC.
StartClock == [year |-> 2024, month |-> 6, day |-> 26, hour |-> 12, offset |-> 0]

\* No request for the feed was sent yet.
NoRequest == [caller |-> "none"]

NoCall ==
    [req |-> NullDate, ret |-> NULL, requests |-> 0, net |-> "none", xml |-> << >>,
     read1 |-> "skip", read2 |-> "skip", write |-> "skip", changed |-> FALSE,
     id |-> 0]

Init ==
    /\ cache = Empty
    /\ feed = << >>
    /\ call = NoCall
    /\ pc = "idle"
    /\ idx = 1
    /\ hist = [i \in 1..Len(HISTORICAL_PERIODS) |-> DateText[1]]
    /\ netUp = TRUE
    /\ results = Empty
    /\ updReqs = 0
    /\ display = "none"
    /\ active = {}
    /\ started = << >>
    /\ now = StartClock
    /\ histDates = << >>
    /\ request = NoRequest

\* The effect of one run r of fetchYieldDataForDate on the cache and the record
\* of the last call, which notes whether the run changed the cache directory.
Ran(r) ==
    /\ cache' = r.cache
    /\ call' = [req |-> r.req, ret |-> r.ret, requests |-> r.requests, net |-> r.net,
                xml |-> r.xml, read1 |-> r.read1, read2 |-> r.read2,
                write |-> r.write, changed |-> (r.cache # cache),
                id |-> 1 - call.id]

\* The Treasury adds a record to the feed.
Publish(entry) ==
    /\ pc = "idle"
    /\ Len(feed) < MaxKey
    /\ feed' = Append(feed, entry)
    /\ UNCHANGED <<cache, call, pc, idx, hist, netUp, results, updReqs, display>>
    /\ UNCHANGED <<seqVars, calVars>>

\* A call of fetchYieldDataForDate(targetDateString) (or of fetchYieldData())
\* from the console.
Resolve(targetDateString, netOK, rd1, rd2, wr) ==
    /\ pc = "idle"
    /\ Ran(fetchYieldDataForDate(targetDateString, cache, netOK, feed, rd1, rd2, wr))
    /\ UNCHANGED <<feed, pc, idx, hist, netUp, results, updReqs, display>>
    /\ UNCHANGED <<seqVars, calVars>>

\* clearCache(dateString) from the console.
clearCache(dateString) ==
    /\ pc = "idle"
    /\ cache' = [k \in DOMAIN cache \ {StripDashes(dateString)} |-> cache[k]]
    /\ UNCHANGED <<feed, call, pc, idx, hist, netUp, results, updReqs, display>>
    /\ UNCHANGED <<seqVars, calVars>>

\* createWidget calls fetchAllYieldData, which calls fetchYieldDataForDate()
\* for the current data and awaits it.
UpdateBegin ==
    /\ pc = "idle"
    /\ pc' = "current"
    /\ active' = active \cup {"current"}
    /\ started' = <<"current">>
    /\ UNCHANGED <<cache, feed, call, idx, hist, netUp, results, updReqs, display>>
    /\ UNCHANGED calVars

\* The fetch of the current data settles; fetchAllYieldData stores it and
\* calls getHistoricalDates.
UpdateStart(up, h, rd1, rd2, wr) ==
    /\ pc = "current"
    /\ LET r == fetchYieldDataForDate(NullDate, cache, up, feed, rd1, rd2, wr)
       IN /\ Ran(r)
          /\ results' = IF r.ret # NULL THEN ("current" :> r.ret) ELSE Empty
          /\ updReqs' = r.requests
    /\ netUp' = up
    /\ hist' = h
    /\ idx' = 1
    /\ pc' = "hist"
    /\ active' = active \ {"current"}
    /\ UNCHANGED <<feed, display, started>>
    /\ UNCHANGED calVars

\* The loop replaced by Promise.all over the historical dates: the fetches of
\* the periods still to come begin together.
HistBegin_All ==
    /\ pc = "hist"
    /\ pc' = "await"
    /\ active' = active \cup
          {DaysKey(HISTORICAL_PERIODS[i]) : i \in idx..Len(HISTORICAL_PERIODS)}
    /\ started' = Append(started, DaysKey(HISTORICAL_PERIODS[idx]))
    /\ UNCHANGED <<cache, feed, call, idx, hist, netUp, results, updReqs, display>>
    /\ UNCHANGED calVars

\* The loop over historicalDates calls fetchYieldDataForDate for the next
\* period and awaits it.
HistBegin ==
    /\ pc = "hist"
    /\ pc' = "await"
    /\ active' = active \cup {DaysKey(HISTORICAL_PERIODS[idx])}
    /\ started' = Append(started, DaysKey(HISTORICAL_PERIODS[idx]))
    /\ UNCHANGED <<cache, feed, call, idx, hist, netUp, results, updReqs, display>>
    /\ UNCHANGED calVars

\* The pass of the loop without its try block and with a fetch that rejects
\* where it returns null: the first period without a curve ends the loop.
UpdateHist_Abort(rd1, rd2, wr) ==
    /\ pc = "await"
    /\ LET daysAgo == HISTORICAL_PERIODS[idx]
           r == fetchYieldDataForDate(hist[idx], cache, netUp, feed, rd1, rd2, wr)
           historicalData == r.ret
       IN /\ Ran(r)
          /\ results' =
                IF IsCurve(historicalData) /\ Len(historicalData.yieldData) > 0
                THEN (DaysKey(daysAgo) :>
                        [date |-> historicalData.date,
                         yieldData |-> historicalData.yieldData,
                         cacheStatus |-> historicalData.cacheStatus,
                         fromCache |-> historicalData.fromCache,
                         label |-> PeriodLabel(daysAgo),
                         daysAgo |-> daysAgo]) @@ results
                ELSE results
          /\ updReqs' = updReqs + r.requests
          /\ pc' = IF idx = Len(HISTORICAL_PERIODS) \/ ~IsCurve(historicalData)
                   THEN "render" ELSE "hist"
    /\ idx' = idx + 1
    /\ active' = active \ {DaysKey(HISTORICAL_PERIODS[idx])}
    /\ UNCHANGED <<feed, hist, netUp, display, started>>
    /\ UNCHANGED calVars

\* The awaited fetch settles and the pass of the loop stores its curve.
UpdateHist(rd1, rd2, wr) ==
    /\ pc = "await"
    /\ LET daysAgo == HISTORICAL_PERIODS[idx]
           r == fetchYieldDataForDate(hist[idx], cache, netUp, feed, rd1, rd2, wr)
           historicalData == r.ret
       IN /\ Ran(r)
          /\ results' =
                IF IsCurve(historicalData) /\ Len(historicalData.yieldData) > 0
                THEN (DaysKey(daysAgo) :>
                        [date |-> historicalData.date,
                         yieldData |-> historicalData.yieldData,
                         cacheStatus |-> historicalData.cacheStatus,
                         fromCache |-> historicalData.fromCache,
                         label |-> PeriodLabel(daysAgo),
                         daysAgo |-> daysAgo]) @@ results
                ELSE results
          /\ updReqs' = updReqs + r.requests
    /\ idx' = idx + 1
    /\ pc' = IF idx = Len(HISTORICAL_PERIODS) THEN "render" ELSE "hist"
    /\ active' = active \ {DaysKey(HISTORICAL_PERIODS[idx])}
    /\ UNCHANGED <<feed, hist, netUp, display, started>>
    /\ UNCHANGED calVars

\* createWidget shows the chart, or the text that no current data came; the
\* results object and the other locals of the run are gone with it.
UpdateFinish ==
    /\ pc = "render"
    /\ display' = IF /\ "current" \in DOMAIN results
                     /\ Len(results["current"].yieldData) > 0
                  THEN "chart" ELSE UnableText
    /\ pc' = "idle"
    /\ results' = Empty
    /\ updReqs' = 0
    /\ idx' = 1
    /\ hist' = [i \in 1..Len(HISTORICAL_PERIODS) |-> DateText[1]]
    /\ netUp' = TRUE
    /\ started' = << >>
    /\ UNCHANGED <<cache, feed, call, active>>
    /\ UNCHANGED calVars

\* The cache under calls from the console.
Next ==
    \/ \E entry \in NextEntries(feed) : Publish(entry)
    \/ \E t \in KeyDates \cup {NullDate}, netOK, rd1, rd2, wr \in BOOLEAN :
          Resolve(t, netOK, rd1, rd2, wr)
    \/ \E d \in KeyDates : clearCache(d)

Spec == Init /\ [][Next]_vars

\* The widget: one update after another.
NextWidget ==
    \/ \E entry \in NextEntries(feed) : Publish(entry)
    \/ UpdateBegin
    \/ \E up \in BOOLEAN, h \in HistoricalDates, rd1, rd2, wr \in BOOLEAN :
          UpdateStart(up, h, rd1, rd2, wr)
    \/ HistBegin
    \/ \E rd1, rd2, wr \in BOOLEAN : UpdateHist(rd1, rd2, wr)
    \/ UpdateFinish

SpecWidget == Init /\ [][NextWidget]_vars

\* The parser on every feed text: one call, the network and the cache working,
\* on an empty cache.
InitParse ==
    /\ cache = Empty
    /\ feed \in ParseFeeds
    /\ call = NoCall
    /\ pc = "idle"
    /\ idx = 1
    /\ hist = [i \in 1..Len(HISTORICAL_PERIODS) |-> DateText[1]]
    /\ netUp = TRUE
    /\ results = Empty
    /\ updReqs = 0
    /\ display = "none"
    /\ active = {}
    /\ started = << >>
    /\ now = StartClock
    /\ histDates = << >>
    /\ request = NoRequest

ParseCall(targetDateString) ==
    /\ call.id = 0
    /\ Resolve(targetDateString, TRUE, TRUE, TRUE, TRUE)

NextParse == \E t \in Dates \cup {NullDate} : ParseCall(t)

SpecParse == InitParse /\ [][NextParse]_vars

\* The texts a maturity field of a record can hold.
FieldTexts ==
    {"4.19", "4.20", " 4.22", "4.19%", "Infinity", "N/A", " N/A ", " ", ""}

\* The records handed to the maturity loop in SpecFields: each of the first
\* MaxVaried fields holds any text or is missing from the record, the other
\* fields are all missing or all hold "4.22".
FieldRows ==
    LET Missing == "(no tag)"
        Index(f) == CHOOSE i \in 1..Len(maturities) : maturities[i].field = f
        Full(first, rest) ==
            [f \in FieldNames |->
                IF Index(f) <= MaxVaried THEN first[Index(f)] ELSE rest]
        Tags(full) == [f \in {g \in FieldNames : full[g] # Missing} |-> full[f]]
    IN {Tags(Full(first, rest)) :
            first \in [1..MaxVaried -> FieldTexts \cup {Missing}],
            rest \in {Missing, "4.22"}}

\* The maturity loop on every record: one call, the network and the cache
\* working, on an empty cache and a feed text of one record.
InitFields ==
    /\ cache = Empty
    /\ feed \in {<<Entry(DateText[1], row)>> : row \in FieldRows}
    /\ call = NoCall
    /\ pc = "idle"
    /\ idx = 1
    /\ hist = [i \in 1..Len(HISTORICAL_PERIODS) |-> DateText[1]]
    /\ netUp = TRUE
    /\ results = Empty
    /\ updReqs = 0
    /\ display = "none"
    /\ active = {}
    /\ started = << >>
    /\ now = StartClock
    /\ histDates = << >>
    /\ request = NoRequest

SpecFields == InitFields /\ [][NextParse]_vars

\* The clocks of the device: every day of the years of the model, at three
\* hours of the day, in three time zones.
CalYears == 2023..(2022 + MaxYears)
Hours == {0, 12, 23}
Offsets == {-5, 0, 9}

Clocks ==
    {c \in [year : CalYears, month : 0..11, day : 1..31, hour : Hours,
            offset : Offsets] : c.day <= DaysInMonth(c.year, c.month)}

\* The date strings fetchYieldDataForDate is called with from the console.
ConsoleDates ==
    {[year |-> 2022, month |-> 12, day |-> 30], [year |-> 2023, month |-> 12, day |-> 29]}

\* fetchAllYieldData calls getHistoricalDates().
GetHistoricalDates ==
    /\ histDates = << >>
    /\ histDates' = getHistoricalDates(now)
    /\ UNCHANGED <<cache, feed, call, pc, idx, hist, netUp, results, updReqs, display>>
    /\ UNCHANGED <<seqVars, now, request>>

\* The request for the feed that fetchYieldDataForDate(histDate.dateString,
\* histDate.date.getFullYear()) of fetchAllYieldData sends for period i.
RequestHistorical(i) ==
    /\ histDates # << >>
    /\ request' = [caller |-> "fetchAllYieldData", dated |-> TRUE,
                   dateString |-> histDates[i].dateString,
                   year |-> histDates[i].date.year,
                   useYear |-> useYear(histDates[i].date.year)]
    /\ UNCHANGED <<cache, feed, call, pc, idx, hist, netUp, results, updReqs, display>>
    /\ UNCHANGED <<seqVars, now, histDates>>

\* The request that fetchYieldDataForDate(dateString), called with a date and
\* no year, sends.
RequestForDate(dateString) ==
    /\ request' = [caller |-> "console", dated |-> TRUE,
                   dateString |-> dateString,
                   year |-> NoYear,
                   useYear |-> useYear(NoYear)]
    /\ UNCHANGED <<cache, feed, call, pc, idx, hist, netUp, results, updReqs, display>>
    /\ UNCHANGED <<seqVars, now, histDates>>

\* The request that fetchYieldDataForDate() for the most recent curve sends.
RequestCurrent ==
    /\ request' = [caller |-> "fetchYieldData", dated |-> FALSE,
                   year |-> NoYear,
                   useYear |-> useYear(NoYear)]
    /\ UNCHANGED <<cache, feed, call, pc, idx, hist, netUp, results, updReqs, display>>
    /\ UNCHANGED <<seqVars, now, histDates>>

\* The business days and the request years at every clock.
InitCalendar ==
    /\ cache = Empty
    /\ feed = << >>
    /\ call = NoCall
    /\ pc = "idle"
    /\ idx = 1
    /\ hist = [i \in 1..Len(HISTORICAL_PERIODS) |-> DateText[1]]
    /\ netUp = TRUE
    /\ results = Empty
    /\ updReqs = 0
    /\ display = "none"
    /\ active = {}
    /\ started = << >>
    /\ now \in Clocks
    /\ histDates = << >>
    /\ request = NoRequest

NextCalendar ==
    \/ GetHistoricalDates
    \/ \E i \in 1..Len(HISTORICAL_PERIODS) : RequestHistorical(i)
    \/ \E d \in ConsoleDates : RequestForDate(d)
    \/ RequestCurrent

SpecCalendar == InitCalendar /\ [][NextCalendar]_vars

(***************************************************************************)
(* Properties.                                                             *)
(***************************************************************************)
\* The cache file of the date the last call asked for.
KeyOf(dateString) == StripDashes(dateString)

\* The last call sent a request and got no curve out of it: the request
\* failed, or the response held no entry.
RemoteFailed ==
    /\ call.requests = 1
    /\ \/ call.net = "error"
       \/ call.net = "ok" /\ Len(call.xml) = 0

\* r is the entry e of the cache, returned as cached data.
IsCachedCopy(r, e) ==
    /\ IsCurve(r)
    /\ r.date = e.date
    /\ r.yieldData = e.yieldData
    /\ r.fromCache = TRUE
    /\ r.cacheStatus = "Cached data"

C2_FallbackWheneverEntryExists ==
    (Truthy(call.req) /\ RemoteFailed /\ KeyOf(call.req) \in DOMAIN cache) =>
        IsCachedCopy(call.ret, cache[KeyOf(call.req)])

\* C2, amended: when the remote call of fetchYieldDataForDate(D) fails and
\* the fallback read of the cache file of D goes through, the call returns
\* that entry tagged as cached data and not null.
C2_FallbackWhenReadable ==
    (Truthy(call.req) /\ RemoteFailed /\ call.read2 = "ok"
        /\ KeyOf(call.req) \in DOMAIN cache) =>
        IsCachedCopy(call.ret, cache[KeyOf(call.req)])

\* The first read failed, the request failed, and the fallback read found the
\* entry.
C2_Witness ==
    /\ Truthy(call.req)
    /\ call.read1 = "fail"
    /\ RemoteFailed
    /\ call.read2 = "ok"
    /\ IsCurve(call.ret)

\* A step that runs fetchYieldDataForDate once more for the date of the last
\* call, with the cache file of that date present and readable.
SecondCall ==
    /\ call'.id # call.id
    /\ Truthy(call.req)
    /\ call'.req = call.req
    /\ KeyOf(call.req) \in DOMAIN cache
    /\ call'.read1 = "ok"

\* C3 as stated: the second of two successive calls for D, the cache entry
\* being present after the first, returns the same curve as the first, the
\* provenance fields included, without a request.  (Stated for a first call
\* that returned a curve with points.)
C3_SecondCallSameCurve ==
    [][(SecondCall /\ IsCurve(call.ret) /\ Len(call.ret.yieldData) > 0) =>
          /\ call'.ret = call.ret
          /\ call'.requests = 0]_vars

\* C3, amended: when the first call returned the entry of the cache or wrote
\* it, the second call returns the same date and the points as the JSON of
\* the cache file gives them back, tagged as cached data whatever the tag of
\* the first call was, sends no request and leaves the cache as it is.
C3_SecondCallSameDateAndPoints ==
    [][(SecondCall /\ IsCurve(call.ret)
          /\ (call.ret.fromCache \/ call.write = "ok")) =>
          /\ call'.requests = 0
          /\ IsCurve(call'.ret)
          /\ call'.ret.date = call.ret.date
          /\ call'.ret.yieldData = JsonRoundTrip(call.ret).yieldData
          /\ call'.ret.fromCache = TRUE
          /\ call'.ret.cacheStatus = "Cached data"
          /\ cache' = cache]_vars

\* A call answered from an entry that a call for the same date wrote: the
\* entry still carries the tag "Fresh data" of the call that fetched it.
C3_Witness ==
    /\ Truthy(call.req)
    /\ call.read1 = "ok"
    /\ call.requests = 0
    /\ IsCurve(call.ret)
    /\ Len(call.ret.yieldData) > 0
    /\ KeyOf(call.req) \in DOMAIN cache
    /\ cache[KeyOf(call.req)].cacheStatus = "Fresh data"

\* C4: every cache file is named after the date of the curve it holds.
C4_KeyIsCurveDate ==
    \A k \in DOMAIN cache : KeyOf(cache[k].date) = k

\* The record the parser picked for the last call yields no point.
SelectedRecordEmpty ==
    /\ call.net = "ok"
    /\ ParseFeed(call.xml, call.req).ok
    /\ Len(ParseFeed(call.xml, call.req).result.yieldData) = 0

\* C5: when the record picked yields no usable point the call ends as a failed
\* fetch does: it writes no cache entry and returns no fresh curve.
C5_NoPointsIsFailure ==
    SelectedRecordEmpty =>
        /\ call.write # "ok"
        /\ ~(IsCurve(call.ret) /\ call.ret.fromCache = FALSE)

\* C6: fetchYieldDataForDate returns a curve or null, whatever the request,
\* the network, the feed, the cache reads and the cache write do; no error
\* leaves it.
C6_CurveOrNull ==
    /\ call.ret # THROWN
    /\ call.ret # NULL =>
          /\ DOMAIN call.ret = {"date", "yieldData", "cacheStatus", "fromCache"}
          /\ call.ret.fromCache \in BOOLEAN

\* Every step of a call failed: both cache reads and the request.
C6_Witness ==
    /\ call.read1 = "fail"
    /\ call.net = "error"
    /\ call.read2 = "fail"
    /\ call.ret = NULL

\* C7: an update that finds the remote feed unreachable, after an update that
\* showed the chart, with a curve in the cache and the cache answering for a
\* historical curve of this update, has current data to show.
C7_OfflineCurrentFromCache ==
    (/\ pc = "render"
     /\ ~netUp
     /\ display = "chart"
     /\ \E k \in DOMAIN cache : Len(cache[k].yieldData) > 0
     /\ \E k \in DOMAIN results : results[k].fromCache) =>
        /\ "current" \in DOMAIN results
        /\ Len(results["current"].yieldData) > 0

\* C8: one run of fetchAllYieldData sends at most one request to the feed.
C8_OneRequestPerUpdate ==
    pc = "render" => updReqs <= 1

\* The entries of the response of the last call whose date text is the target.
ExactRecords ==
    {i \in 1..Len(call.xml) :
        HasDate(call.xml[i]) /\ DateOf(call.xml[i]) = call.req}

\* The entries of the response whose date is on or before the target date.
EarlierRecords ==
    {i \in 1..Len(call.xml) :
        /\ HasDate(call.xml[i])
        /\ ValidDate(DateOf(call.xml[i]))
        /\ DayOf(DateOf(call.xml[i])) <= DayOf(call.req)}

\* C9: when the target date is the date of a record of the feed, the curve
\* returned has that date and the points of a record of that date, also when
\* earlier records are in the feed.
C9_ExactRecord ==
    (call.id = 1 /\ Truthy(call.req) /\ ExactRecords # {}) =>
        /\ IsCurve(call.ret)
        /\ call.ret.date = call.req
        /\ \E i \in ExactRecords : call.ret.yieldData = YieldData(call.xml[i])
        /\ \A i \in EarlierRecords \ ExactRecords :
              call.ret.date # DateOf(call.xml[i])

\* The record of the target date comes after a record of an earlier date that
\* holds other rates.
C9_Witness ==
    /\ call.id = 1
    /\ Truthy(call.req)
    /\ IsCurve(call.ret)
    /\ \E i, j \in 1..Len(call.xml) :
          /\ i < j
          /\ j \in ExactRecords
          /\ i \in EarlierRecords \ ExactRecords
          /\ YieldData(call.xml[i]) # YieldData(call.xml[j])
          /\ call.ret.yieldData = YieldData(call.xml[j])

\* C10: when no record has the target date, the curve returned has the latest
\* date on or before the target among the records, wherever that record stands
\* in the feed, and the points of a record of that date; when no record is on or
\* before the target the call, on an empty cache, returns null.
C10_ClosestPrior ==
    (call.id = 1 /\ Truthy(call.req) /\ Len(call.xml) > 0 /\ ExactRecords = {}) =>
        IF EarlierRecords = {}
        THEN call.ret = NULL /\ cache = Empty
        ELSE /\ IsCurve(call.ret)
             /\ \E i \in EarlierRecords :
                   /\ call.ret.date = DateOf(call.xml[i])
                   /\ call.ret.yieldData = YieldData(call.xml[i])
                   /\ \A j \in EarlierRecords :
                         DayOf(DateOf(call.xml[j])) <= DayOf(DateOf(call.xml[i]))

\* The latest record before the target stands in the feed before an earlier
\* one and after a later one, and is the one returned.
C10_Witness ==
    /\ call.id = 1
    /\ Truthy(call.req)
    /\ ExactRecords = {}
    /\ IsCurve(call.ret)
    /\ \E i, j \in EarlierRecords :
          /\ i < j
          /\ DayOf(DateOf(call.xml[j])) < DayOf(DateOf(call.xml[i]))
          /\ call.ret.date = DateOf(call.xml[i])
    /\ \E k \in 1..Len(call.xml) :
          /\ HasDate(call.xml[k])
          /\ ValidDate(DateOf(call.xml[k]))
          /\ DayOf(DateOf(call.xml[k])) > DayOf(call.req)

\* C11: a call for the most recent curve that got a feed text with at least
\* one record returns the curve of the last record of the text: its points,
\* and its date when the record has one; the cache holds the curve under the
\* key of that date.
C11_CurrentIsLastBlock ==
    (call.id = 1 /\ ~Truthy(call.req) /\ call.net = "ok" /\ Len(call.xml) > 0) =>
        LET last == call.xml[Len(call.xml)]
        IN /\ IsCurve(call.ret)
           /\ call.ret.yieldData = YieldData(last)
           /\ HasDate(last) => call.ret.date = DateOf(last)
           /\ KeyOf(call.ret.date) \in DOMAIN cache
           /\ cache[KeyOf(call.ret.date)].date = call.ret.date

\* The key the last call handed to setCachedData with the curve it built.
ActualCacheKey ==
    IF Truthy(call.req) THEN call.req ELSE ParseFeed(call.xml, call.req).result.date

\* The last call got a feed text, built a curve from it and handed it to
\* setCachedData under a key, and the write of the file did not go through.
WriteFailed ==
    /\ call.write \in {"fail", "throw"}
    /\ call.net = "ok"
    /\ ParseFeed(call.xml, call.req).ok
    /\ Truthy(ActualCacheKey)

FiniteNumberText(t) == ParseFloat(t) \notin {"NaN", "Infinity", "-Infinity"}

\* The field of maturity m is in the record, with a text that is not blank,
\* is not "N/A" and parses as a finite number.
FieldAccepted(entry, m) ==
    /\ m.field \in DOMAIN entry
    /\ Trim(entry[m.field]) # ""
    /\ entry[m.field] # "N/A"
    /\ FiniteNumberText(entry[m.field])

\* C12: the curve built from a record holds a point of a maturity exactly when
\* the record has the field of the maturity with a text that is not blank, is
\* not "N/A" and parses as a finite number; every point is a maturity of the
\* table with its months, and the months grow strictly along the curve, so no
\* maturity comes twice and the points stand in the order of the table.
C12_PointsAreAcceptedFields ==
    (call.id = 1 /\ call.net = "ok" /\ Len(call.xml) = 1 /\ IsCurve(call.ret)) =>
        LET entry == call.xml[1]
            points == call.ret.yieldData
        IN /\ \A i \in 1..Len(maturities) :
                 (\E j \in 1..Len(points) : points[j].label = maturities[i].label)
                    <=> FieldAccepted(entry, maturities[i])
           /\ \A j \in 1..Len(points) : \E i \in 1..Len(maturities) :
                 /\ points[j].label = maturities[i].label
                 /\ points[j].months = maturities[i].months
           /\ \A j, k \in 1..Len(points) :
                 j < k => points[j].months < points[k].months

\* C17: a run of fetchYieldDataForDate, for the most recent curve or for a
\* date, leaves every entry the cache holds in place and as it is (stated for
\* the entries that hold points); a step that changes the cache without such
\* a run is clearCache(K), which removes the entry of K and leaves the entries
\* of the other keys as they are.
C17_EntriesPermanent ==
    [][/\ call'.id # call.id =>
             \A k \in DOMAIN cache :
                Len(cache[k].yieldData) > 0 =>
                    k \in DOMAIN cache' /\ cache'[k] = cache[k]
       /\ (call'.id = call.id /\ cache' # cache) =>
             \E K \in DOMAIN cache :
                /\ DOMAIN cache' = DOMAIN cache \ {K}
                /\ \A k \in DOMAIN cache' : cache'[k] = cache[k]]_vars

\* The key of the results object for the historical period of this pass.
PassKey == DaysKey(HISTORICAL_PERIODS[idx])

\* C14: fetchAllYieldData goes through every outcome of its fetches.  When the
\* fetch of the current data settles, the results object holds at most the key
\* "current" and the loop begins; when the fetch of a historical period
\* settles, the object gains the key days_N of the period exactly when the
\* fetch returned a curve with at least one point, every other key stays as
\* it is, and the run goes on to the next period, or to the end after the
\* last, whether or not a curve came.
C14_HistoryKeysAreCurves ==
    [][/\ (pc = "current" /\ pc' # pc) =>
             /\ pc' = "hist"
             /\ DOMAIN results' \subseteq {"current"}
       /\ (pc = "await" /\ pc' # pc) =>
             /\ PassKey \in DOMAIN results' <=>
                   (IsCurve(call'.ret) /\ Len(call'.ret.yieldData) > 0)
             /\ PassKey \in DOMAIN results' =>
                   /\ results'[PassKey].date = call'.ret.date
                   /\ results'[PassKey].yieldData = call'.ret.yieldData
             /\ DOMAIN results' \ {PassKey} = DOMAIN results \ {PassKey}
             /\ \A k \in DOMAIN results \ {PassKey} : results'[k] = results[k]
             /\ idx' = idx + 1
             /\ pc' = IF idx < Len(HISTORICAL_PERIODS) THEN "hist" ELSE "render"]_vars

\* A run in which the fetch of the current data and the fetch of the first
\* period gave nothing and the fetch of the second period gave a curve.
C14_Witness ==
    /\ pc = "render"
    /\ "current" \notin DOMAIN results
    /\ DaysKey(HISTORICAL_PERIODS[1]) \notin DOMAIN results
    /\ DaysKey(HISTORICAL_PERIODS[2]) \in DOMAIN results
    /\ Len(results[DaysKey(HISTORICAL_PERIODS[2])].yieldData) > 0

\* The fetches of one run in the order the code begins them.
FetchOrder ==
    <<"current">> \o [i \in 1..Len(HISTORICAL_PERIODS) |-> DaysKey(HISTORICAL_PERIODS[i])]

WorkingDay(date) ==
    /\ (DayNumber(date) + 1) % 7 \notin {0, 6}
    /\ <<date.month + 1, date.day>> \notin {<<1, 1>>, <<7, 4>>, <<12, 25>>}

\* The date getHistoricalDates hands to getClosestPreviousBusinessDay for
\* period i.
TargetDate(i) == setDate(now, now.day - HISTORICAL_PERIODS[i])

\* C13: getClosestPreviousBusinessDay(d) ends after three steps back at most
\* and returns the latest day on or before d that is no Saturday, no Sunday
\* and none of January 1, July 4 and December 25, at the hour of d: d itself
\* when d is such a day.
C13_ClosestPreviousBusinessDay ==
    \A i \in 1..Len(histDates) :
        LET d == TargetDate(i)
            b == histDates[i].date
            back == DayNumber(d) - DayNumber(b)
        IN /\ WorkingDay(b)
           /\ back \in 0..3
           /\ \A k \in 0..(back - 1) : ~WorkingDay(setDate(d, d.day - k))
           /\ b = setDate(d, d.day - back)

\* A target date on a holiday that is a Monday: the Friday before it, three
\* days back and in the year before, is returned.
C13_Witness ==
    \E i \in 1..Len(histDates) :
        /\ DayNumber(TargetDate(i)) - DayNumber(histDates[i].date) = 3
        /\ histDates[i].date.year < TargetDate(i).year

\* C18: the year in the request for the feed is the year of the date asked
\* for when the call has a date, whether fetchAllYieldData passes a year or
\* the call has a date only, and the current year when the call asks for the
\* most recent curve.
C18_RequestYearIsYearOfDate ==
    request.caller # "none" =>
        IF request.dated
        THEN request.useYear = request.dateString.year
        ELSE request.useYear = currentYear

\* C19: every date string getHistoricalDates returns is the calendar day of
\* the business day it goes with, so it is no Saturday, no Sunday and no
\* holiday, and its year is the year fetchAllYieldData passes for the request.
C19_DateStringIsBusinessDay ==
    \A i \in 1..Len(histDates) :
        LET h == histDates[i]
            asDate == [year |-> h.dateString.year, month |-> h.dateString.month - 1,
                       day |-> h.dateString.day]
        IN /\ h.dateString =
                 [year |-> h.date.year, month |-> h.date.month + 1, day |-> h.date.day]
           /\ WorkingDay(asDate)
           /\ h.dateString.year = h.date.year

====
